---- MODULE Spec2Model ----
(***************************************************************************)
(* Model of seisflows/solver/specfem2d.py: the model/kernel text tables    *)
(* (load, save), the vector/dictionary conversion (merge, split), the      *)
(* kernel post-processing (smooth, clip) and the fixed-field mesh cache    *)
(* written by initialize_io_machinery.                                     *)
(*                                                                         *)
(* Numbers are exact integers (fixed-point samples of the float fields).   *)
(* A Python list indexed 0..n-1 is a sequence indexed 1..n.                *)
(***************************************************************************)
EXTENDS Integers, Sequences, FiniteSets, TLC

\* ------------------------------------------------------------------ bounds
MaxNPROC == 2    \* PAR.NPROC ranges over 1..MaxNPROC
MaxRows  == 2    \* rows of a text table / nodes of a partition: 1..MaxRows
MaxVec   == 4    \* length of an input optimization vector: 0..MaxVec
MaxNode  == 1    \* system.getnode() ranges over 0..MaxNode

\* -------------------------------------------------------- program constants
Keys == <<"x", "z", "rho", "vp", "vs">>
KeySet == {Keys[i] : i \in 1..Len(Keys)}
model_parameters == <<"rho", "vp", "vs">>
inversion_parameters == <<"vs">>
InvSet == {inversion_parameters[i] : i \in 1..Len(inversion_parameters)}
ModelSet == {model_parameters[i] : i \in 1..Len(model_parameters)}
\* setdiff(model_set, inversion_set) plus the coordinates
CacheKeys == (ModelSet \ InvSet) \cup {"x", "z"}
SigDigits == 11  \* '%16.10e': one leading digit and ten decimals

\* ------------------------------------------------------------------ helpers
Min(a, b) == IF a <= b THEN a ELSE b
Max(a, b) == IF a >= b THEN a ELSE b
Abs(a) == IF a < 0 THEN -a ELSE a
Range(s) == {s[i] : i \in 1..Len(s)}

\* Python s[a:b] for 0 <= a, 0 <= b (ends clamped to the sequence)
Slice(s, a, b) ==
  LET hi == Min(b, Len(s))
  IN  IF hi <= a THEN <<>> ELSE [i \in 1..(hi - a) |-> s[a + i]]

RECURSIVE SeqMin(_)
SeqMin(s) == IF Len(s) = 1 THEN s[1] ELSE Min(s[1], SeqMin(Tail(s)))
RECURSIVE SeqMax(_)
SeqMax(s) == IF Len(s) = 1 THEN s[1] ELSE Max(s[1], SeqMax(Tail(s)))

RECURSIVE Digits(_)
Digits(n) == IF n < 10 THEN 1 ELSE 1 + Digits(n \div 10)
RECURSIVE Pow10(_)
Pow10(k) == IF k = 0 THEN 1 ELSE 10 * Pow10(k - 1)

\* '%16.10e' % x read back by float(): x rounded to `digits` significant
\* decimal digits (half away from zero)
RoundSig(x, digits) ==
  LET a == Abs(x)
      d == Digits(a)
  IN  IF d <= digits THEN x
      ELSE LET unit == Pow10(d - digits)
               r == ((a + unit \div 2) \div unit) * unit
           IN  IF x < 0 THEN -r ELSE r

Format(x) == RoundSig(x, SigDigits)

\* --------------------------------------------------------- values and files
NoParts == [k \in KeySet |-> <<>>]
None == [some |-> FALSE, val |-> NoParts]
Some(p) == [some |-> TRUE, val |-> p]
NoVec == [some |-> FALSE, val |-> <<>>]
SomeVec(u) == [some |-> TRUE, val |-> u]
NoFile == [exists |-> FALSE, data |-> <<>>]
File(d) == [exists |-> TRUE, data |-> d]

Column(T, c) == [r \in 1..Len(T) |-> T[r][c]]

\* np.loadtxt(filename): the table squeezed, every axis of size one dropped
loadtxt(T) ==
  LET nrow == Len(T)
      ncol == IF nrow = 0 THEN 0 ELSE Len(T[1])
      dims == IF nrow = 0 THEN <<0>> ELSE <<nrow, ncol>>
  IN  [shape |-> SelectSeq(dims, LAMBDA n : n # 1), rows |-> T]

\* load(filename) on the file content T
load(T) ==
  LET M == loadtxt(T)
  IN  IF Len(M.shape) < 2 THEN [err |-> "IndexError", parts |-> NoParts]
      ELSE LET ncol == M.shape[2]
               ioff == IF ncol = 5 THEN 0 ELSE 1
           IN  IF ncol \notin {5, 6}
                 THEN [err |-> "ValueError", parts |-> NoParts]
                 ELSE [err |-> "ok",
                       parts |-> [k \in KeySet |->
                          LET i == CHOOSE j \in 1..Len(Keys) : Keys[j] = k
                          IN  << Column(M.rows, ioff + i) >>]]

\* M[:,icol+ioff] = parts[key][0] for a column of nrow entries
FitsColumn(arr, nrow) == Len(arr) = nrow \/ Len(arr) = 1
Broadcast(arr, nrow) == IF Len(arr) = nrow THEN arr ELSE [r \in 1..nrow |-> arr[1]]

\* save(filename, parts, type); popkey is the key parts.keys().pop() yields
save(parts, type, popkey) ==
  IF type \notin {"model", "kernel"} THEN [err |-> "ValueError", data |-> <<>>]
  ELSE IF Len(parts[popkey]) = 0 THEN [err |-> "IndexError", data |-> <<>>]
  ELSE LET nrow == Len(parts[popkey][1])
       IN  IF \E k \in KeySet : Len(parts[k]) = 0
             THEN [err |-> "IndexError", data |-> <<>>]
           ELSE IF \E k \in KeySet : ~FitsColumn(parts[k][1], nrow)
             THEN [err |-> "ValueError", data |-> <<>>]
           ELSE LET cols == [i \in 1..Len(Keys) |-> Broadcast(parts[Keys[i]][1], nrow)]
                    named == [r \in 1..nrow |-> [i \in 1..Len(Keys) |-> Format(cols[i][r])]]
                IN  [err |-> "ok",
                     data |-> IF type = "model"
                                THEN [r \in 1..nrow |-> <<Format(0)>> \o named[r]]
                                ELSE named]

\* ------------------------------------------------ vector/dictionary conversion
RECURSIVE mergePrepend(_, _, _, _, _)
\* merge with np.append's arguments swapped
mergePrepend(parts, nproc, j, iproc, v) ==
  IF j > Len(inversion_parameters) THEN [err |-> "ok", val |-> v]
  ELSE IF iproc >= nproc THEN mergePrepend(parts, nproc, j + 1, 0, v)
  ELSE LET key == inversion_parameters[j]
       IN  IF iproc >= Len(parts[key]) THEN [err |-> "IndexError", val |-> <<>>]
           ELSE mergePrepend(parts, nproc, j, iproc + 1, parts[key][iproc + 1] \o v)

RECURSIVE mergeFrom(_, _, _, _, _)
\* the double loop of merge, resumed at parameter j (1-based), partition iproc
mergeFrom(parts, nproc, j, iproc, v) ==
  IF j > Len(inversion_parameters) THEN [err |-> "ok", val |-> v]
  ELSE IF iproc >= nproc THEN mergeFrom(parts, nproc, j + 1, 0, v)
  ELSE LET key == inversion_parameters[j]
       IN  IF iproc >= Len(parts[key]) THEN [err |-> "IndexError", val |-> <<>>]
           ELSE mergeFrom(parts, nproc, j, iproc + 1, v \o parts[key][iproc + 1])

\* merge with the loop over partitions one short
mergeShort(parts, nproc) == mergeFrom(parts, nproc - 1, 1, 0, <<>>)
merge(parts, nproc) == mergeFrom(parts, nproc, 1, 0, <<>>)

\* position j (0-based) of key among the inversion parameters met so far in
\* split's loop over Keys
InvBefore(i) == Cardinality({h \in 1..(i - 1) : Keys[h] \in InvSet})

\* imin = nrow*PAR.NPROC*j + nrow*i for parameter j, partition i (0-based)
iminNoStride(nrow, nproc, j, i) == nrow * nproc * j + i
imin(nrow, nproc, j, i) == nrow * nproc * j + nrow * i
\* imax = nrow*PAR.NPROC*j + nrow*(i + 1)
imax(nrow, nproc, j, i) == nrow * nproc * j + nrow * (i + 1)

\* split(v) with the cache `cache` ([key, proc] -> file) and PAR.NPROC = nproc
split(v, cache, nproc) ==
  LET nrow == Len(v) \div (nproc * Len(inversion_parameters))
      missing == {k \in KeySet \ InvSet : \E i \in 0..(nproc - 1) : ~cache[k, i].exists}
  IN  IF missing # {} THEN [err |-> "IOError", parts |-> NoParts]
      ELSE [err |-> "ok",
            parts |-> [k \in KeySet |->
               IF k \in InvSet
                 THEN LET j == InvBefore(CHOOSE h \in 1..Len(Keys) : Keys[h] = k)
                      IN  [p \in 1..nproc |->
                             Slice(v, imin(nrow, nproc, j, p - 1), imax(nrow, nproc, j, p - 1))]
                 ELSE [p \in 1..nproc |-> cache[k, p - 1].data]]]

\* np.clip(a, lo, hi) on one element.  numpy performs no check that lo <= hi;
\* the two implementations (minimum(maximum(a, lo), hi) and the compare-and-
\* assign fast path) agree when lo <= hi and differ otherwise.
\* np.clip with the lower bound forgotten
npclipUpperOnly(x, lo, hi, impl) == Min(x, hi)

npclip(x, lo, hi, impl) ==
  IF impl = "minmax" THEN Min(Max(x, lo), hi)
  ELSE IF x < lo THEN lo ELSE IF x > hi THEN hi ELSE x

ClipImpls == {"minmax", "fast"}

\* thresh = tn / ThreshDen
ThreshDen == 2
ThreshNums == (0 - ThreshDen)..(ThreshDen + 1)
Exact(tn, x) == (tn * x) % ThreshDen = 0
Scale(tn, x) == (tn * x) \div ThreshDen

\* the loop of clip over the inversion parameters, on the loaded parts
clipParts(parts, tn, impl) ==
  [k \in KeySet |->
     IF k \in InvSet
       THEN LET a == parts[k][1]
                lo == Scale(tn, SeqMin(a))
                hi == Scale(tn, SeqMax(a))
            IN  << [r \in 1..Len(a) |-> npclip(a[r], lo, hi, impl)] >>
       ELSE parts[k]]

ClipExact(parts, tn) ==
  \A k \in InvSet : Exact(tn, SeqMin(parts[k][1])) /\ Exact(tn, SeqMax(parts[k][1]))

\* meshsmooth(x, z, values, span, nx, nz): the values averaged by Gaussian
\* weights, node count and ordering kept; from the values unchanged (narrow
\* span) to all nodes levelled at one value (wide span)
meshsmooth(a) == {a} \cup {[r \in 1..Len(a) |-> c] : c \in Range(a)}

\* the cache files written by initialize_io_machinery: for key in order, for
\* proc in range(NPROC): np.save(file, parts[key][proc]), resumed at (j, proc)
RECURSIVE writeCache(_, _, _, _, _, _)
writeCache(parts, order, nproc, j, proc, cache) ==
  IF j > Len(order) THEN [err |-> "ok", cache |-> cache]
  ELSE IF proc >= nproc THEN writeCache(parts, order, nproc, j + 1, 0, cache)
  ELSE LET key == order[j]
       IN  IF proc >= Len(parts[key]) THEN [err |-> "IndexError", cache |-> cache]
           ELSE writeCache(parts, order, nproc, j, proc + 1,
                           [cache EXCEPT ![key, proc] = File(parts[key][proc + 1])])

\* ------------------------------------------------------------ input domains
Signs == {-1, 1}
FieldValues == {s * ThreshDen * ThreshDen : s \in {-2, -1, 1, 2}}
ProcIds == 0..(MaxNPROC - 1)
Nodes == 0..MaxNode
FileNames == {"gradient", "_nosmooth", "_noclip"}
Tags == {"gradient"}
Types == {"model", "kernel", "unknown"}
MaxCols == 7     \* column counts of a solver table: 1..MaxCols
MaxSpan == 1     \* span ranges over 0..MaxSpan
MaxCalls == 2    \* calls made in one run

KeyIndex(k) == CHOOSE i \in 1..Len(Keys) : Keys[i] = k
Fill(k, p, r) == 100 * KeyIndex(k) + 10 * p + r
ArraysOver(V, n) == UNION {[1..m -> V] : m \in 1..n}
\* split and merge move elements and never read them: an input vector carries
\* its own positions (or their negatives) as elements
Vectors == {[i \in 1..n |-> s * i] : n \in 0..MaxVec, s \in Signs}

\* the FieldSet whose inversion-parameter fields hold the per-partition arrays
\* a, every other field a filler array of the partition's node count
MkFieldSet(a) ==
  [k \in KeySet |->
     IF k \in InvSet THEN a
     ELSE [p \in 1..Len(a) |-> [r \in 1..Len(a[p]) |-> Fill(k, p - 1, r)]]]
\* one FieldSet for each choice of the partitions' node counts, the inversion-
\* parameter elements tagged by partition and node
FieldSets(nproc) ==
  {MkFieldSet([p \in 1..nproc |-> [r \in 1..n[p] |-> s * (10 * p + r)]]) :
      n \in [1..nproc -> 1..MaxRows], s \in Signs}

\* a text table of ncol columns whose last column is a, the others filler
MkTable(ncol, a) ==
  [r \in 1..Len(a) |-> [c \in 1..ncol |-> IF c = ncol THEN a[r] ELSE 10 * c + r]]
\* kernel tables load accepts: their kernel columns over FieldValues, in
\* non-decreasing order (clip treats every node alike)
NonDecreasing(a) == \A r \in 1..(Len(a) - 1) : a[r] <= a[r + 1]
KernelTables ==
  {MkTable(ncol, a) : ncol \in {5, 6},
                      a \in {b \in [1..MaxRows -> FieldValues] : NonDecreasing(b)}}
\* solver tables: every column count for each row count, and every kernel
\* tables
Tables ==
  {MkTable(ncol, [r \in 1..n |-> 0]) : ncol \in 1..MaxCols, n \in 1..MaxRows}
    \cup KernelTables
InitModels == {MkTable(6, [r \in 1..n |-> 0]) : n \in 1..MaxRows}

EmptyCache == [k \in CacheKeys, i \in ProcIds |-> NoFile]
\* a cache materialized by an earlier run: n nodes in every partition
PreCache(n) == [k \in CacheKeys, i \in ProcIds |-> File([r \in 1..n |-> 1000 + Fill(k, i, r)])]

Perms(S) == {s \in [1..Cardinality(S) -> S] : Range(s) = S}
\* list(setdiff(model_set, inversion_set)) + ['x', 'z']: a set's order is the build's
CacheOrders == {s \o <<"x", "z">> : s \in Perms(ModelSet \ InvSet)}

\* -------------------------------------------------------------------- state
VARIABLES
  NPROC,       \* PAR.NPROC
  model_init,  \* the file PATH.MODEL_INIT
  mesh,        \* the files PATH.GLOBAL/mesh/<key>/<proc>
  meshExists,  \* whether the directory PATH.GLOBAL/mesh exists
  m_new,       \* the file PATH.OPTIMIZE/m_new
  files,       \* the files path/<name>
  parts,       \* the FieldSet the last call returned
  v,           \* the vector the last call returned
  call,        \* the last call: its name, arguments and outcome
  orig,        \* the argument of the first call of a round trip
  pc,          \* position inside a running smooth or clip
  work,        \* the local variable parts of a running smooth or clip
  pre,         \* content of path/tag when the running smooth or clip began
  left         \* calls the caller still makes

vars == <<NPROC, model_init, mesh, meshExists, m_new, files, parts, v, call, orig, pc, work, pre, left>>

NoCall == [op |-> "none", err |-> "ok", file |-> "", type |-> "", tn |-> 0,
           span |-> 0, node |-> 0, hadCache |-> FALSE, loaded |-> FALSE]
NoOrig == [kind |-> "none", legs |-> 0, vec |-> <<>>, fs |-> NoParts, type |-> "", file |-> ""]

config == <<NPROC, model_init>>
disk == <<mesh, meshExists, m_new, files>>
local == <<pc, work, pre>>
Idle == pc' = "idle" /\ work' = NoParts /\ pre' = NoFile
\* a call begins: no smooth or clip is running and the caller has calls left
Begin == pc = "idle" /\ left > 0 /\ left' = left - 1

Second(kind) == IF orig.kind = kind /\ orig.legs = 1 THEN [orig EXCEPT !.legs = 2] ELSE NoOrig

\* ------------------------------------------------------------------ actions
\* split(u) on a vector handed in by the optimizer
SplitInput(u) ==
  /\ Begin
  /\ LET r == split(u, mesh, NPROC)
     IN  /\ parts' = IF r.err = "ok" THEN Some(r.parts) ELSE None
         /\ call' = [NoCall EXCEPT !.op = "split", !.err = r.err]
  /\ v' = NoVec
  /\ orig' = [NoOrig EXCEPT !.kind = "split", !.legs = 1, !.vec = u]
  /\ Idle
  /\ UNCHANGED <<config, disk>>

\* split(v) on the vector the last merge returned
SplitVec ==
  /\ Begin
  /\ v.some
  /\ LET r == split(v.val, mesh, NPROC)
     IN  /\ parts' = IF r.err = "ok" THEN Some(r.parts) ELSE None
         /\ call' = [NoCall EXCEPT !.op = "split", !.err = r.err]
  /\ v' = NoVec
  /\ orig' = Second("merge")
  /\ Idle
  /\ UNCHANGED <<config, disk>>

\* merge(F) on a FieldSet handed in by the caller
MergeInput(F) ==
  /\ Begin
  /\ LET r == merge(F, NPROC)
     IN  /\ v' = IF r.err = "ok" THEN SomeVec(r.val) ELSE NoVec
         /\ call' = [NoCall EXCEPT !.op = "merge", !.err = r.err]
  /\ parts' = None
  /\ orig' = [NoOrig EXCEPT !.kind = "merge", !.legs = 1, !.fs = F]
  /\ Idle
  /\ UNCHANGED <<config, disk>>

\* merge(parts) on the FieldSet the last call returned
MergeParts ==
  /\ Begin
  /\ parts.some
  /\ LET r == merge(parts.val, NPROC)
     IN  /\ v' = IF r.err = "ok" THEN SomeVec(r.val) ELSE NoVec
         /\ call' = [NoCall EXCEPT !.op = "merge", !.err = r.err]
  /\ parts' = None
  /\ orig' = Second("split")
  /\ Idle
  /\ UNCHANGED <<config, disk>>

\* load(path/f)
Load(f) ==
  /\ Begin
  /\ LET r == IF files[f].exists THEN load(files[f].data)
                                 ELSE [err |-> "IOError", parts |-> NoParts]
     IN  /\ parts' = IF r.err = "ok" THEN Some(r.parts) ELSE None
         /\ call' = [NoCall EXCEPT !.op = "load", !.err = r.err, !.file = f]
  /\ v' = NoVec
  /\ orig' = IF orig.file = f THEN Second("save") ELSE NoOrig
  /\ Idle
  /\ UNCHANGED <<config, disk>>

\* the effect on the files of save(path/f, F, type) with outcome r, and what
\* the call reports
SaveTo(r, F, f, type) ==
      /\ files' = IF r.err = "ok" THEN [files EXCEPT ![f] = File(r.data)] ELSE files
      /\ call' = [NoCall EXCEPT !.op = "save", !.err = r.err, !.file = f, !.type = type]
      /\ orig' = IF r.err = "ok"
                   THEN [NoOrig EXCEPT !.kind = "save", !.legs = 1, !.fs = F,
                                       !.type = type, !.file = f]
                   ELSE NoOrig

\* save(path/f, F, type) on a FieldSet handed in by the caller
SaveInput(F, f, type) ==
  /\ Begin
  /\ \E r \in {save(F, type, popkey) : popkey \in KeySet} : SaveTo(r, F, f, type)
  /\ parts' = None
  /\ v' = NoVec
  /\ Idle
  /\ UNCHANGED <<config, mesh, meshExists, m_new>>

\* save(path/f, parts, type) on the FieldSet the last call returned
SaveParts(f, type) ==
  /\ Begin
  /\ parts.some
  /\ \E r \in {save(parts.val, type, popkey) : popkey \in KeySet} : SaveTo(r, parts.val, f, type)
  /\ parts' = None
  /\ v' = NoVec
  /\ Idle
  /\ UNCHANGED <<config, mesh, meshExists, m_new>>

\* ---- clip(path, tag, thresh), thresh = tn / ThreshDen, in its three steps:
\* load and clamp; unix.mv(path/tag, path/_noclip); save(path/tag, parts)
ClipBegin(tag, tn) ==
  /\ Begin
  /\ LET r == IF files[tag].exists THEN load(files[tag].data)
                                   ELSE [err |-> "IOError", parts |-> NoParts]
         c == [NoCall EXCEPT !.op = "clip", !.file = tag, !.tn = tn]
     IN  IF r.err # "ok"
           THEN /\ call' = [c EXCEPT !.err = r.err]
                /\ parts' = None
                /\ Idle
         ELSE IF tn >= ThreshDen
           THEN /\ call' = c
                /\ parts' = Some(r.parts)
                /\ Idle
         ELSE /\ ClipExact(r.parts, tn)
              /\ \E impl \in ClipImpls : work' = clipParts(r.parts, tn, impl)
              /\ call' = [c EXCEPT !.err = "running"]
              /\ parts' = None
              /\ pc' = "clip_mv"
              /\ pre' = files[tag]
  /\ v' = NoVec
  /\ orig' = NoOrig
  /\ UNCHANGED <<config, disk>>

\* the archive step replaced by a removal of the source
MoveDropsSource(src, dst) == files' = [files EXCEPT ![src] = NoFile]

\* unix.mv(src, dst)
Move(src, dst) == files' = [files EXCEPT ![dst] = files[src], ![src] = NoFile]

ClipMv ==
  /\ pc = "clip_mv"
  /\ Move(call.file, "_noclip")
  /\ pc' = "clip_save"
  /\ UNCHANGED <<config, mesh, meshExists, m_new, parts, v, call, orig, work, pre, left>>

\* the closing self.save(path/tag, parts) of smooth and clip (type 'model')
PostSave ==
  \E r \in {save(work, "model", popkey) : popkey \in KeySet} :
         /\ files' = IF r.err = "ok" THEN [files EXCEPT ![call.file] = File(r.data)]
                                     ELSE files
         /\ call' = [call EXCEPT !.err = r.err]

ClipSave ==
  /\ pc = "clip_save"
  /\ PostSave
  /\ pc' = "idle"
  /\ work' = NoParts
  /\ UNCHANGED <<config, mesh, meshExists, m_new, parts, v, orig, pre, left>>

\* ---- smooth(path, tag, span) in its three steps
\* lz = z.max() - z.min() of the loaded parts
GridDegenerate(p) == SeqMax(p["z"][1]) = SeqMin(p["z"][1])

SmoothBegin(tag, span) ==
  /\ Begin
  /\ LET r == IF files[tag].exists THEN load(files[tag].data)
                                   ELSE [err |-> "IOError", parts |-> NoParts]
         c == [NoCall EXCEPT !.op = "smooth", !.file = tag, !.span = span]
     IN  IF r.err # "ok"
           THEN /\ call' = [c EXCEPT !.err = r.err]
                /\ parts' = None
                /\ Idle
         ELSE IF span = 0
           THEN /\ call' = c
                /\ parts' = Some(r.parts)
                /\ Idle
         ELSE \/ /\ GridDegenerate(r.parts)   \* nx = nz = nan: meshsmooth may raise
                 /\ call' = [c EXCEPT !.err = "ValueError"]
                 /\ parts' = None
                 /\ Idle
              \/ /\ \E sm \in [InvSet -> UNION {meshsmooth(r.parts[k][1]) : k \in InvSet}] :
                       /\ \A k \in InvSet : sm[k] \in meshsmooth(r.parts[k][1])
                       /\ work' = [k \in KeySet |-> IF k \in InvSet THEN << sm[k] >>
                                                                  ELSE r.parts[k]]
                 /\ call' = [c EXCEPT !.err = "running"]
                 /\ parts' = None
                 /\ pc' = "smooth_mv"
                 /\ pre' = files[tag]
  /\ v' = NoVec
  /\ orig' = NoOrig
  /\ UNCHANGED <<config, disk>>

SmoothMv ==
  /\ pc = "smooth_mv"
  /\ Move(call.file, "_nosmooth")
  /\ pc' = "smooth_save"
  /\ UNCHANGED <<config, mesh, meshExists, m_new, parts, v, call, orig, work, pre, left>>

SmoothSave ==
  /\ pc = "smooth_save"
  /\ PostSave
  /\ pc' = "idle"
  /\ work' = NoParts
  /\ UNCHANGED <<config, mesh, meshExists, m_new, parts, v, orig, pre, left>>

\* ---- initialize_io_machinery on node `node`
\* the block with its guard `if not exists(path)` left out
cacheRewritten(p, order, nproc, exists, cache) ==
  writeCache(p, order, nproc, 1, 0, cache)

\* the block `if not exists(path): for key ...: mkdir; for proc ...: np.save`
cacheAfterInit(p, order, nproc, exists, cache) ==
  IF exists THEN [err |-> "ok", cache |-> cache]
  ELSE writeCache(p, order, nproc, 1, 0, cache)

\* the block `if not exists(path): savenpy(path, self.merge(parts))`
mnewAfterInit(p, nproc, file) ==
  IF file.exists THEN [err |-> "ok", file |-> file]
  ELSE LET r == merge(p, nproc)
       IN  [err |-> r.err, file |-> IF r.err = "ok" THEN File(r.val) ELSE file]

initialize_io_machinery(node) ==
  /\ Begin
  /\ LET c == [NoCall EXCEPT !.op = "init", !.node = node, !.hadCache = meshExists]
     IN  IF node # 0
           THEN /\ call' = c
                /\ UNCHANGED disk
         ELSE LET r == load(model_init.data)
              IN  IF r.err # "ok"
                    THEN /\ call' = [c EXCEPT !.err = r.err]
                         /\ UNCHANGED disk
                  ELSE \E order \in CacheOrders, hasOptimize \in BOOLEAN :
                         LET w == cacheAfterInit(r.parts, order, NPROC, meshExists, mesh)
                             m == IF w.err = "ok" /\ hasOptimize
                                    THEN mnewAfterInit(r.parts, NPROC, m_new)
                                    ELSE [err |-> w.err, file |-> m_new]
                         IN  /\ mesh' = w.cache
                             /\ meshExists' = TRUE
                             /\ m_new' = m.file
                             /\ call' = [c EXCEPT !.err = m.err, !.loaded = TRUE]
                             /\ UNCHANGED files
  /\ parts' = None
  /\ v' = NoVec
  /\ orig' = NoOrig
  /\ Idle
  /\ UNCHANGED config

\* ------------------------------------------------------------ specifications
NoFiles == [f \in FileNames |-> NoFile]
Gradient(T) == [NoFiles EXCEPT !["gradient"] = File(T)]

\* the state before any call: nothing returned, no smooth or clip running
Fresh ==
  /\ parts = None
  /\ v = NoVec
  /\ call = NoCall
  /\ orig = NoOrig
  /\ pc = "idle"
  /\ work = NoParts
  /\ pre = NoFile
  /\ left = MaxCalls

\* the mesh cache is absent, or was materialized by an earlier run
CacheInit ==
  \/ mesh = EmptyCache /\ meshExists = FALSE
  \/ \E n \in 1..MaxRows : mesh = PreCache(n) /\ meshExists = TRUE

\* ---- the Vectorizer: split and merge over the cache
InitVec ==
  /\ NPROC \in 1..MaxNPROC
  /\ model_init = File(MkTable(5, <<0, 0>>))
  /\ CacheInit
  /\ m_new = NoFile
  /\ files = NoFiles
  /\ Fresh

NextVec ==
  \/ \E u \in Vectors : SplitInput(u)
  \/ SplitVec
  \/ \E F \in FieldSets(NPROC) : MergeInput(F)
  \/ MergeParts

SpecVec == InitVec /\ [][NextVec]_vars

\* ---- the FieldStore: load and save of the text tables
InitIO ==
  /\ NPROC \in 1..MaxNPROC
  /\ model_init = File(MkTable(5, <<0, 0>>))
  /\ mesh = EmptyCache /\ meshExists = FALSE
  /\ m_new = NoFile
  /\ files \in {Gradient(T) : T \in Tables}
  /\ Fresh

NextIO ==
  \/ \E f \in FileNames : Load(f)
  \/ \E F \in FieldSets(NPROC), f \in Tags, type \in Types : SaveInput(F, f, type)
  \/ \E f \in Tags, type \in Types : SaveParts(f, type)

SpecIO == InitIO /\ [][NextIO]_vars

\* ---- the post-processing of the kernel file: smooth and clip
InitPost ==
  /\ NPROC \in 1..MaxNPROC
  /\ model_init = File(MkTable(5, <<0, 0>>))
  /\ mesh = EmptyCache /\ meshExists = FALSE
  /\ m_new = NoFile
  /\ files \in {Gradient(T) : T \in KernelTables}
  /\ Fresh

NextPost ==
  \/ \E tag \in Tags, tn \in ThreshNums : ClipBegin(tag, tn)
  \/ ClipMv
  \/ ClipSave
  \/ \E tag \in Tags, span \in 0..MaxSpan : SmoothBegin(tag, span)
  \/ SmoothMv
  \/ SmoothSave

SpecPost == InitPost /\ [][NextPost]_vars

\* ---- the whole subsystem, on a few inputs of each kind
SomeTables == {MkTable(5, [r \in 1..MaxRows |-> ThreshDen * r])}
SomeThresh == {-1, 1, ThreshDen}
SomeVectors == {[i \in 1..n |-> i] : n \in 0..MaxVec}
SomeFieldSets(nproc) == {MkFieldSet([p \in 1..nproc |-> [r \in 1..n |-> 10 * p + r]]) : n \in 1..MaxRows}

Init ==
  /\ NPROC \in 1..MaxNPROC
  /\ model_init \in {File(T) : T \in InitModels}
  /\ \/ mesh = EmptyCache /\ meshExists = FALSE
     \/ mesh = PreCache(MaxRows) /\ meshExists = TRUE
  /\ m_new = NoFile
  /\ files \in {Gradient(T) : T \in SomeTables}
  /\ Fresh

Next ==
  \/ \E node \in Nodes : initialize_io_machinery(node)
  \/ \E u \in SomeVectors : SplitInput(u)
  \/ SplitVec
  \/ \E F \in SomeFieldSets(NPROC) : MergeInput(F)
  \/ MergeParts
  \/ \E f \in FileNames : Load(f)
  \/ \E F \in SomeFieldSets(NPROC), f \in Tags, type \in Types : SaveInput(F, f, type)
  \/ \E f \in Tags, type \in Types : SaveParts(f, type)
  \/ \E tag \in Tags, tn \in SomeThresh : ClipBegin(tag, tn)
  \/ ClipMv
  \/ ClipSave
  \/ \E tag \in Tags, span \in 0..MaxSpan : SmoothBegin(tag, span)
  \/ SmoothMv
  \/ SmoothSave

Spec == Init /\ [][Next]_vars

\* ------------------------------------------------------------------- claims
Divisor == NPROC * Len(inversion_parameters)
SplitThenMerge == call.op = "merge" /\ orig.kind = "split" /\ orig.legs = 2
MergeThenSplit == call.op = "split" /\ orig.kind = "merge" /\ orig.legs = 2
SaveThenLoad == call.op = "load" /\ orig.kind = "save" /\ orig.legs = 2

\* C1: for a vector v whose length is a multiple of NPROC x
\* count(inversion_parameters), split(v) over a populated cache followed by
\* merge gives back v: the same length and the same element at every index.
C1_MergeSplitIsIdentity ==
  (SplitThenMerge /\ Len(orig.vec) % Divisor = 0) =>
     /\ call.err = "ok"
     /\ v.some
     /\ Len(v.val) = Len(orig.vec)
     /\ \A i \in 1..Len(orig.vec) : v.val[i] = orig.vec[i]

C1_Witness ==
  /\ SplitThenMerge
  /\ NPROC = MaxNPROC
  /\ Len(orig.vec) = 2 * NPROC
  /\ orig.vec[1] # orig.vec[2]
  /\ v.some /\ v.val = orig.vec

SamePartitionSizes(F) ==
  \A k \in InvSet : \A p, q \in 1..Len(F[k]) : Len(F[k][p]) = Len(F[k][q])

InversionFieldsRestored ==
  \A k \in InvSet :
     /\ Len(parts.val[k]) = NPROC
     /\ \A p \in 1..NPROC : parts.val[k][p] = orig.fs[k][p]

\* C2 as stated: for any FieldSet F with one array per partition (partitions
\* may have different node counts), split(merge(F)) returns for every
\* inversion parameter and partition exactly the array F held.
C2_SplitMergeRestoresAny ==
  (MergeThenSplit /\ call.err = "ok") => InversionFieldsRestored

\* C2 amended: the same, for FieldSets whose partitions all hold the same
\* number of nodes, whenever split completes (the cache is populated).
C2_SplitMergeRestoresUniform ==
  (MergeThenSplit /\ call.err = "ok" /\ SamePartitionSizes(orig.fs)) =>
     (parts.some /\ InversionFieldsRestored)

C2_Witness ==
  /\ MergeThenSplit
  /\ call.err = "ok"
  /\ NPROC = MaxNPROC
  /\ SamePartitionSizes(orig.fs)
  /\ \A k \in InvSet : Len(orig.fs[k][1]) = MaxRows /\ orig.fs[k][1] # orig.fs[k][NPROC]
  /\ InversionFieldsRestored

\* number of elements merge appends before parameter j (1-based), partition p
\* (1-based), in parameter-major, partition-minor order
RECURSIVE LenBefore(_, _, _)
LenBefore(F, j, p) ==
  IF p > 1 THEN LenBefore(F, j, p - 1) + Len(F[inversion_parameters[j]][p - 1])
  ELSE IF j > 1 THEN LenBefore(F, j - 1, NPROC + 1)
  ELSE 0

\* C3: merge(F) is the parameter-major, partition-minor concatenation of F's
\* inversion-parameter arrays; its length is the sum of their lengths, so no
\* other field contributes an element.
C3_MergeIsConcatenation ==
  (call.op = "merge" /\ orig.kind = "merge" /\ orig.legs = 1) =>
     /\ call.err = "ok"
     /\ v.some
     /\ Len(v.val) = LenBefore(orig.fs, Len(inversion_parameters), NPROC + 1)
     /\ \A j \in 1..Len(inversion_parameters) : \A p \in 1..NPROC :
          LET a == orig.fs[inversion_parameters[j]][p]
          IN  \A r \in 1..Len(a) : v.val[LenBefore(orig.fs, j, p) + r] = a[r]

C3_Witness ==
  /\ call.op = "merge" /\ orig.kind = "merge" /\ orig.legs = 1
  /\ NPROC = MaxNPROC
  /\ \A k \in InvSet : Len(orig.fs[k][1]) = 1 /\ Len(orig.fs[k][NPROC]) = MaxRows
                        /\ orig.fs[k][1][1] # orig.fs[k][NPROC][1]
  /\ v.some /\ Len(v.val) >= 1 + MaxRows

\* C4 as stated: split(v) fails whenever len(v) is not divisible by NPROC x
\* count(inversion_parameters), and never returns a FieldSet whose
\* inversion-parameter arrays together hold fewer elements than v.
C4_SplitRejectsIndivisible ==
  (call.op = "split" /\ orig.kind = "split" /\ orig.legs = 1) =>
     /\ (Len(orig.vec) % Divisor # 0 => (call.err # "ok" /\ ~parts.some))
     /\ (parts.some =>
           LenBefore(parts.val, Len(inversion_parameters), NPROC + 1) >= Len(orig.vec))

\* the array of field k in the table T, as load reads it
FieldOf(T, k) == load(T).parts[k][1]

\* C5 as stated: load on a table with any number of rows (including one)
\* succeeds exactly when the column count is 5 or 6, mapping the columns, after
\* the skipped leading one when there are 6, to x, z, rho, vp, vs; for every
\* other column count it fails (whatever the exception raised) and returns no
\* FieldSet.
C5_LoadAcceptsFiveOrSixColumns ==
  (call.op = "load" /\ files[call.file].exists /\ Len(files[call.file].data) >= 1) =>
     LET T == files[call.file].data
         ncol == Len(T[1])
         skip == ncol - Len(Keys)
     IN  /\ ncol \in {5, 6} =>
              /\ call.err = "ok"
              /\ parts.some
              /\ \A i \in 1..Len(Keys) : parts.val[Keys[i]] = << Column(T, skip + i) >>
         /\ ncol \notin {5, 6} => (call.err # "ok" /\ ~parts.some)

\* C6 as stated: for any FieldSet F (one array per partition, NPROC >= 1),
\* load(save(F, "kernel")) reproduces F: the same five fields and for every
\* field the same per-partition arrays, up to the print precision (stated for
\* the round trips in which load returns).
C6_KernelRoundTrip ==
  (SaveThenLoad /\ orig.type = "kernel" /\ call.err = "ok") =>
     /\ parts.some
     /\ \A k \in KeySet :
          /\ Len(parts.val[k]) = Len(orig.fs[k])
          /\ \A p \in 1..Len(orig.fs[k]) :
               /\ Len(parts.val[k][p]) = Len(orig.fs[k][p])
               /\ \A r \in 1..Len(orig.fs[k][p]) :
                    parts.val[k][p][r] = Format(orig.fs[k][p][r])

\* a clip with thresh < 1 has run to its end
ClipDone == call.op = "clip" /\ pc = "idle" /\ pre.exists /\ call.err = "ok"
SmoothDone == call.op = "smooth" /\ pc = "idle" /\ pre.exists /\ call.err = "ok"

\* thresh*min <= x <= thresh*max for the values a held before, thresh = tn/ThreshDen
WithinScaled(x, tn, a) == tn * SeqMin(a) <= ThreshDen * x /\ ThreshDen * x <= tn * SeqMax(a)

ClippedWithin ==
  /\ pc \in {"clip_mv", "clip_save"} =>
        \A k \in InvSet : \A r \in 1..Len(work[k][1]) :
           WithinScaled(work[k][1][r], call.tn, FieldOf(pre.data, k))
  /\ ClipDone =>
        \A k \in InvSet :
           LET after == FieldOf(files[call.file].data, k)
           IN  \A r \in 1..Len(after) : WithinScaled(after[r], call.tn, FieldOf(pre.data, k))

\* C7 as stated: for any thresh < 1 (zero and negative included) every value
\* clip writes lies in [thresh*min, thresh*max] of the field before clipping.
C7_ClipWithinAnyThresh == ClippedWithin

\* C7 amended: the same for 0 <= thresh < 1.
C7_ClipWithinNonNegThresh == call.tn >= 0 => ClippedWithin

C7_Witness ==
  /\ ClipDone
  /\ call.tn = 1
  /\ \E k \in InvSet :
        LET before == FieldOf(pre.data, k)
            after == FieldOf(files[call.file].data, k)
        IN  /\ SeqMin(before) < 0 /\ SeqMax(before) > 0
            /\ \A r \in 1..Len(after) : after[r] # before[r]

\* C9: a smooth (span # 0) or clip (thresh < 1) first moves the pre-call
\* content of path/tag to the archive name and only then rewrites path/tag:
\* until the move path/tag still holds it, from the move on the archive holds
\* it, and after the call the archive holds exactly it.
C9_ArchivedBeforeOverwrite ==
  /\ pc \in {"clip_mv", "smooth_mv"} => (pre.exists /\ files[call.file] = pre)
  /\ pc = "clip_save" => (pre.exists /\ files["_noclip"] = pre /\ ~files[call.file].exists)
  /\ pc = "smooth_save" => (pre.exists /\ files["_nosmooth"] = pre /\ ~files[call.file].exists)
  /\ ClipDone => (files["_noclip"] = pre /\ files[call.file].exists)
  /\ SmoothDone => (files["_nosmooth"] = pre /\ files[call.file].exists)

C9_Witness ==
  /\ SmoothDone
  /\ left = 0
  /\ files["_noclip"].exists
  /\ files["_nosmooth"] = pre
  /\ files[call.file] # pre

\* C8: once the mesh cache exists no operation changes it: every step leaves
\* the directory in place and every cache entry as it was.
C8_CacheNeverMutated ==
  [][meshExists => (meshExists' /\ mesh' = mesh)]_vars

C8_Witness ==
  /\ call.op = "init" /\ call.node = 0 /\ call.hadCache /\ call.loaded
  /\ left = 0
  /\ \E k \in CacheKeys : mesh[k, 0].exists

InitFromScratch == call.op = "init" /\ call.node = 0 /\ ~call.hadCache /\ call.loaded

\* C10 as stated: for every NPROC >= 1, after initialize_io_machinery has run
\* on node 0 with no cache before it, the cache holds an entry for every field
\* in {x, z} and the model parameters not inverted for, and every partition
\* 0..NPROC-1, so that every cache read of a later split finds its entry.
C10_CacheCompleteAfterInit ==
  InitFromScratch =>
     /\ \A k \in CacheKeys : \A i \in 0..(NPROC - 1) : mesh[k, i].exists
     /\ \A u \in SomeVectors : split(u, mesh, NPROC).err = "ok"

====
